---- MODULE Spec2Model ----
(***************************************************************************)
(* A model of the trivia API of backend/flaskr/__init__.py: the pagination *)
(* helper, the seven route handlers and the five error handlers, over a    *)
(* store of questions and categories.                                      *)
(*                                                                         *)
(* Texts are sequences of one-character strings, so that substring and     *)
(* ILIKE matching, int() parsing and str() formatting are computed.        *)
(* JSON values are tagged records: JNull, JInt(n), JStr(s), JList(l),      *)
(* JObj(o); a JSON object is a function from its keys to JSON values.      *)
(***************************************************************************)
EXTENDS Integers, Sequences, FiniteSets, TLC

VARIABLES
    questions,   \* the rows of the questions table, in the order query.all() returns them
    nextId,      \* the next id the store assigns
    categories,  \* the rows of the categories table: a function id -> type
    req,         \* the last request served
    resp,        \* its response
    old,         \* the rows of the questions table before that request
    page,        \* pagination walk: the number of pages fetched so far
    fetched,     \* pagination walk: the concatenation of the pages fetched
    quizCat,     \* quiz client: the category id it plays
    previous,    \* quiz client: the ids it has been served, in order
    calls,       \* quiz client: the number of POST /quizzes calls made
    finished     \* quiz client: it has received question = null

vars == <<questions, nextId, categories, req, resp, old, page, fetched,
          quizCat, previous, calls, finished>>

storeVars == <<questions, nextId, categories>>
walkVars == <<page, fetched>>
clientVars == <<quizCat, previous, calls, finished>>

----------------------------------------------------------------------------
(* Bounds of the model *)

MaxSeed == 12
MaxItems == 23
MaxCreates == 2
MaxPages == 4
MaxQuizIds == 3

(* Program constant *)
QUESTIONS_PER_PAGE == 10

----------------------------------------------------------------------------
(* Python and JSON values *)

Min(a, b) == IF a < b THEN a ELSE b
Max(a, b) == IF a > b THEN a ELSE b

Range(s) == {s[i] : i \in 1..Len(s)}

JNull == [t |-> "null"]
JInt(n) == [t |-> "int", n |-> n]
JStr(s) == [t |-> "str", s |-> s]
JList(l) == [t |-> "list", l |-> l]
JObj(o) == [t |-> "obj", o |-> o]

IsNull(v) == v.t = "null"

\* dict.get(key, default)
DictGet(d, key, default) == IF key \in DOMAIN d THEN d[key] ELSE default

Digits == <<"0", "1", "2", "3", "4", "5", "6", "7", "8", "9">>
IsDigit(c) == \E i \in 1..10 : Digits[i] = c
DigitVal(c) == (CHOOSE i \in 1..10 : Digits[i] = c) - 1

RECURSIVE DigitsVal(_)
DigitsVal(s) ==
    IF s = <<>> THEN 0
    ELSE 10 * DigitsVal(SubSeq(s, 1, Len(s) - 1)) + DigitVal(s[Len(s)])

AllDigits(s) == s # <<>> /\ \A i \in 1..Len(s) : IsDigit(s[i])

\* int(s) of a text: an optional sign and at least one digit; anything else
\* raises ValueError (ok = FALSE).
ParseInt(s) ==
    IF s # <<>> /\ s[1] \in {"-", "+"}
    THEN IF AllDigits(Tail(s))
         THEN [ok |-> TRUE, val |-> IF s[1] = "-" THEN 0 - DigitsVal(Tail(s)) ELSE DigitsVal(Tail(s))]
         ELSE [ok |-> FALSE, val |-> 0]
    ELSE IF AllDigits(s)
         THEN [ok |-> TRUE, val |-> DigitsVal(s)]
         ELSE [ok |-> FALSE, val |-> 0]

RECURSIVE NatToStr(_)
NatToStr(n) ==
    IF n < 10 THEN <<Digits[n + 1]>>
    ELSE NatToStr(n \div 10) \o <<Digits[(n % 10) + 1]>>

\* str(n) of an integer
IntToStr(n) == IF n < 0 THEN <<"-">> \o NatToStr(0 - n) ELSE NatToStr(n)

\* seq[start:end] of Python: negative indices count from the end, and both
\* ends are clipped to the sequence.
PySlice(s, start, end) ==
    LET n == Len(s)
        lo == IF start < 0 THEN Max(start + n, 0) ELSE Min(start, n)
        hi == IF end < 0 THEN Max(end + n, 0) ELSE Min(end, n)
    IN IF lo >= hi THEN <<>> ELSE SubSeq(s, lo + 1, hi)

\* request.args.get(key, default, type=int): the default when the key is
\* absent and when int() raises ValueError.
ArgsGetInt(args, key, default) ==
    IF key \in DOMAIN args
    THEN LET r == ParseInt(args[key]) IN IF r.ok THEN r.val ELSE default
    ELSE default

----------------------------------------------------------------------------
(* The data access layer (models.py): a Question row is a record           *)
(* [id, question, answer, category, difficulty]; question and answer are   *)
(* texts, category and difficulty are integers.                            *)

\* Question.format()
Format(q) ==
    [id |-> q.id, question |-> q.question, answer |-> q.answer,
     category |-> q.category, difficulty |-> q.difficulty]

FormatAll(selection) == [i \in 1..Len(selection) |-> Format(selection[i])]

\* The integer a numeric column takes from a JSON value: an integer, or a
\* text that reads as one; anything else is rejected by the store.
ToInt(v) ==
    IF v.t = "int" THEN [ok |-> TRUE, val |-> v.n]
    ELSE IF v.t = "str" THEN ParseInt(v.s)
    ELSE [ok |-> FALSE, val |-> 0]

\* The text a text column takes from a JSON value.
ToText(v) == IF v.t = "str" THEN v.s ELSE IF v.t = "int" THEN IntToStr(v.n) ELSE <<>>

\* Whether the store accepts Question(question, answer, category, difficulty).
InsertAccepted(q, a, c, d) ==
    /\ q.t \in {"str", "int"}
    /\ a.t \in {"str", "int"}
    /\ ToInt(c).ok
    /\ ToInt(d).ok

\* Question.insert(): the row gets the next id of the sequence and is added.
InsertRow(rows, id, q, a, c, d) ==
    Append(rows, [id |-> id, question |-> ToText(q), answer |-> ToText(a),
                  category |-> ToInt(c).val, difficulty |-> ToInt(d).val])

\* Question.delete(): the row with that id is removed.
DeleteRow(rows, id) == LET Other(q) == q.id # id IN SelectSeq(rows, Other)

\* Question.query.filter(Question.id == id).one_or_none(): 0 when there is none
FindRow(rows, id) ==
    IF \E i \in 1..Len(rows) : rows[i].id = id
    THEN CHOOSE i \in 1..Len(rows) : rows[i].id = id
    ELSE 0

Ids(rows) == {rows[i].id : i \in 1..Len(rows)}

\* lower() of a character
Lower(c) == IF c = "A" THEN "a" ELSE IF c = "B" THEN "b" ELSE IF c = "Z" THEN "z" ELSE c

RECURSIVE LikeMatch(_, _)
\* text ILIKE pattern: % matches any run of characters, _ any one character,
\* a backslash makes the next character literal, letters match in any case.
LikeMatch(pattern, text) ==
    IF pattern = <<>> THEN text = <<>>
    ELSE IF Head(pattern) = "%"
         THEN \/ LikeMatch(Tail(pattern), text)
              \/ text # <<>> /\ LikeMatch(pattern, Tail(text))
    ELSE IF Head(pattern) = "_"
         THEN text # <<>> /\ LikeMatch(Tail(pattern), Tail(text))
    ELSE IF Head(pattern) = "\\" /\ Len(pattern) >= 2
         THEN /\ text # <<>>
              /\ Lower(pattern[2]) = Lower(Head(text))
              /\ LikeMatch(Tail(Tail(pattern)), Tail(text))
    ELSE /\ text # <<>>
         /\ Lower(Head(pattern)) = Lower(Head(text))
         /\ LikeMatch(Tail(pattern), Tail(text))

----------------------------------------------------------------------------
(* paginate_questions *)

PaginateOffByOne(args, selection) ==
    LET p == ArgsGetInt(args, "page", 1)
        start == (p - 1) * QUESTIONS_PER_PAGE
        end == start + QUESTIONS_PER_PAGE + 1
    IN PySlice(FormatAll(selection), start, end)

paginate_questions(args, selection) ==
    LET p == ArgsGetInt(args, "page", 1)
        start == (p - 1) * QUESTIONS_PER_PAGE
        end == start + QUESTIONS_PER_PAGE
        qs == FormatAll(selection)
    IN PySlice(qs, start, end)

----------------------------------------------------------------------------
(* Responses.  A response is [status, body]; body is the JSON object sent. *)

Ok(body) == [status |-> 200, body |-> body]

ErrorMessage(code) ==
    CASE code = 400 -> "Bad request"
      [] code = 404 -> "Resource not found"
      [] code = 405 -> "Method not allowed"
      [] code = 422 -> "Not able to be processed"
      [] code = 500 -> "Server error"

HandledCodes == {400, 404, 405, 422, 500}

\* A response the framework writes itself, when no handler is registered.
RawError(code) == [status |-> code, body |-> [html |-> "raw"]]

\* Faulty variant: no handler is registered for 500
ErrorHandlerWithout500(code) ==
    IF code \in HandledCodes \ {500}
    THEN [status |-> code,
          body |-> [success |-> FALSE, error |-> code, message |-> ErrorMessage(code)]]
    ELSE RawError(code)

\* The errorhandler registered for the code
ErrorHandler(code) ==
    IF code \in HandledCodes
    THEN [status |-> code,
          body |-> [success |-> FALSE, error |-> code, message |-> ErrorMessage(code)]]
    ELSE RawError(code)

\* abort(code)
Abort(code) == ErrorHandler(code)

\* An exception no handler of the route catches: the framework turns it into
\* a 500 and calls the handler registered for 500.
Unhandled == ErrorHandler(500)

\* What a handler leaves behind: the response and the store
Reply(r, rows, id) == [resp |-> r, questions |-> rows, nextId |-> id]

----------------------------------------------------------------------------
(* The route handlers.  The body of a request is NoBody when it carries no *)
(* JSON (request.get_json() returns None), BadBody when it is declared     *)
(* JSON and does not parse (request.get_json() raises BadRequest), and     *)
(* JsonBody(o) for a JSON object o.                                        *)

NoBody == [json |-> FALSE, bad |-> FALSE]
BadBody == [json |-> FALSE, bad |-> TRUE]
JsonBody(o) == [json |-> TRUE, bad |-> FALSE, obj |-> o]

get_categories(cats) ==
    IF Cardinality(DOMAIN cats) = 0
    THEN Abort(404)
    ELSE Ok([success |-> TRUE, categories |-> cats,
             total_categories |-> Cardinality(DOMAIN cats)])

\* Faulty variant: 404 when the table is empty, not when the page is
GetAllQuestions404OnEmptyTable(rows, cats, args) ==
    LET current_questions == paginate_questions(args, rows)
    IN IF Len(rows) = 0
       THEN Abort(404)
       ELSE Ok([success |-> TRUE, questions |-> current_questions,
                total_questions |-> Len(rows), categories |-> cats,
                current_category |-> JNull])

get_all_questions(rows, cats, args) ==
    LET current_questions == paginate_questions(args, rows)
    IN IF Len(current_questions) = 0
       THEN Abort(404)
       ELSE Ok([success |-> TRUE, questions |-> current_questions,
                total_questions |-> Len(rows), categories |-> cats,
                current_category |-> JNull])

\* Faulty variant: total_questions is counted before the delete
DeleteQuestionStaleTotal(rows, id, args, question_id, fault) ==
    IF FindRow(rows, question_id) = 0
    THEN Reply(Abort(404), rows, id)
    ELSE IF fault
         THEN Reply(Abort(422), rows, id)
         ELSE LET after == DeleteRow(rows, question_id)
              IN Reply(Ok([success |-> TRUE, deleted |-> question_id,
                           questions |-> paginate_questions(args, after),
                           total_questions |-> Len(rows)]),
                       after, id)

\* fault: the store fails to carry out the delete
delete_question(rows, id, args, question_id, fault) ==
    IF FindRow(rows, question_id) = 0
    THEN Reply(Abort(404), rows, id)
    ELSE IF fault
         THEN Reply(Abort(422), rows, id)
         ELSE LET after == DeleteRow(rows, question_id)
              IN Reply(Ok([success |-> TRUE, deleted |-> question_id,
                           questions |-> paginate_questions(args, after),
                           total_questions |-> Len(after)]),
                       after, id)

\* Faulty variant: total_questions is the length of the page returned
InsertCountingPage(rows, id, args, new_q, new_answer, new_category, new_difficulty, fault) ==
    IF fault \/ ~InsertAccepted(new_q, new_answer, new_category, new_difficulty)
    THEN Reply(Abort(422), rows, id)
    ELSE LET after == InsertRow(rows, id, new_q, new_answer, new_category, new_difficulty)
         IN Reply(Ok([success |-> TRUE, created |-> id,
                      questions |-> paginate_questions(args, after),
                      total_questions |-> Len(paginate_questions(args, after))]),
                  after, id + 1)

\* The try block of new_question: the insert and the refreshed listing; any
\* exception becomes 422.  fault: the store fails to carry out the insert.
InsertAndList(rows, id, args, new_q, new_answer, new_category, new_difficulty, fault) ==
    IF fault \/ ~InsertAccepted(new_q, new_answer, new_category, new_difficulty)
    THEN Reply(Abort(422), rows, id)
    ELSE LET after == InsertRow(rows, id, new_q, new_answer, new_category, new_difficulty)
         IN Reply(Ok([success |-> TRUE, created |-> id,
                      questions |-> paginate_questions(args, after),
                      total_questions |-> Len(after)]),
                  after, id + 1)

\* Faulty variant: a missing field is answered 400
NewQuestionAborting400(rows, id, args, body, fault) ==
    IF body.bad
    THEN Reply(Abort(400), rows, id)
    ELSE IF ~body.json
    THEN Reply(Unhandled, rows, id)
    ELSE LET new_q == DictGet(body.obj, "question", JNull)
             new_answer == DictGet(body.obj, "answer", JNull)
             new_category == DictGet(body.obj, "category", JNull)
             new_difficulty == DictGet(body.obj, "difficulty", JNull)
         IN IF IsNull(new_q) \/ IsNull(new_answer) \/ IsNull(new_category)
                 \/ IsNull(new_difficulty)
            THEN Reply(Abort(400), rows, id)
            ELSE InsertAndList(rows, id, args, new_q, new_answer, new_category,
                               new_difficulty, fault)

new_question(rows, id, args, body, fault) ==
    IF body.bad
    THEN Reply(Abort(400), rows, id)
    ELSE IF ~body.json
    THEN Reply(Unhandled, rows, id)
    ELSE LET new_q == DictGet(body.obj, "question", JNull)
             new_answer == DictGet(body.obj, "answer", JNull)
             new_category == DictGet(body.obj, "category", JNull)
             new_difficulty == DictGet(body.obj, "difficulty", JNull)
         IN IF IsNull(new_q) \/ IsNull(new_answer) \/ IsNull(new_category)
                 \/ IsNull(new_difficulty)
            THEN Reply(Abort(422), rows, id)
            ELSE InsertAndList(rows, id, args, new_q, new_answer, new_category,
                               new_difficulty, fault)

\* str(v) as the f-string formats it
PyStr(v) ==
    IF v.t = "str" THEN v.s
    ELSE IF v.t = "int" THEN IntToStr(v.n)
    ELSE <<"N", "o", "n", "e">>

\* Question.query.filter(Question.question.ilike(pattern)).all()
FilterILike(rows, pattern) ==
    LET Matches(q) == LikeMatch(pattern, q.question) IN SelectSeq(rows, Matches)

search_questions(rows, args, body) ==
    IF body.bad
    THEN Abort(400)
    ELSE IF ~body.json
    THEN Unhandled
    ELSE LET search == DictGet(body.obj, "searchTerm", JStr(<<>>))
             found == FilterILike(rows, <<"%">> \o PyStr(search) \o <<"%">>)
         IN Ok([success |-> TRUE, questions |-> paginate_questions(args, found),
                total_questions |-> Len(found)])

\* Question.query.filter(Question.category == c).all()
FilterCategory(rows, c) == LET InCategory(q) == q.category = c IN SelectSeq(rows, InCategory)

get_category_list(rows, args, category_id) ==
    LET found == FilterCategory(rows, category_id)
        current_questions == paginate_questions(args, found)
    IN IF Len(found) = 0
       THEN Abort(404)
       ELSE Ok([success |-> TRUE, questions |-> current_questions,
                total_questions |-> Len(found)])

\* Question.id.notin_(previous_questions)
FilterNotIn(rows, prev) == LET Unseen(q) == q.id \notin Range(prev) IN SelectSeq(rows, Unseen)

\* random.choice(seq): the values it can return
RandomChoice(seq) == Range(seq)

\* value == 0 of Python for a JSON value
EqualsZero(v) == v.t = "int" /\ v.n = 0

\* Faulty variant: the questions already asked are not left out
QuizSelectionWithPrevious(rows, cid, prev) ==
    IF EqualsZero(cid) THEN rows
    ELSE IF IsNull(cid) THEN <<>>
    ELSE FilterCategory(rows, ToInt(cid).val)

\* The query of get_quiz_questions: the questions not in previous_questions,
\* of every category when the id is 0 and of that category otherwise
QuizSelection(rows, cid, prev) ==
    IF EqualsZero(cid) THEN FilterNotIn(rows, prev)
    ELSE IF IsNull(cid) THEN <<>>
    ELSE FilterCategory(FilterNotIn(rows, prev), ToInt(cid).val)

\* Faulty variant: question = null already when one question is left
QuizAnswersEndingEarly(quiz_questions) ==
    IF Len(quiz_questions) <= 1
    THEN {Ok([success |-> TRUE, question |-> JNull])}
    ELSE {Ok([success |-> TRUE, question |-> next_q]) :
            next_q \in RandomChoice(FormatAll(quiz_questions))}

\* The responses to a selection: question = null when it is empty, else one
\* for each question random.choice can draw
QuizAnswers(quiz_questions) ==
    IF Len(quiz_questions) = 0
    THEN {Ok([success |-> TRUE, question |-> JNull])}
    ELSE {Ok([success |-> TRUE, question |-> next_q]) :
            next_q \in RandomChoice(FormatAll(quiz_questions))}

\* Faulty variant: a body with no quiz_category is played over all categories
QuizDefaultingToAll(rows, id, body) ==
    IF ~body.json
    THEN {Reply(Abort(422), rows, id)}
    ELSE LET quiz_category == DictGet(body.obj, "quiz_category", JObj([id |-> JInt(0)]))
             previous_questions == DictGet(body.obj, "previous_questions", JList(<<>>))
         IN IF quiz_category.t # "obj" \/ previous_questions.t # "list"
            THEN {Reply(Abort(422), rows, id)}
            ELSE IF "id" \notin DOMAIN quiz_category.o
            THEN {Reply(Abort(422), rows, id)}
            ELSE LET cid == quiz_category.o["id"]
                 IN IF ~EqualsZero(cid) /\ ~IsNull(cid) /\ ~ToInt(cid).ok
                    THEN {Reply(Abort(422), rows, id)}
                    ELSE {Reply(r, rows, id) :
                            r \in QuizAnswers(QuizSelection(rows, cid, previous_questions.l))}

\* The replies the handler can give.  Inside its try block: a body that is
\* not an object, a quiz_category that is not one or has no id, a list of
\* previous questions that is none, and an id the store cannot compare with a
\* category all raise, and every exception becomes 422.
get_quiz_questions(rows, id, body) ==
    IF ~body.json
    THEN {Reply(Abort(422), rows, id)}
    ELSE LET quiz_category == DictGet(body.obj, "quiz_category", JInt(0))
             previous_questions == DictGet(body.obj, "previous_questions", JList(<<>>))
         IN IF quiz_category.t # "obj" \/ previous_questions.t # "list"
            THEN {Reply(Abort(422), rows, id)}
            ELSE IF "id" \notin DOMAIN quiz_category.o
            THEN {Reply(Abort(422), rows, id)}
            ELSE LET cid == quiz_category.o["id"]
                 IN IF ~EqualsZero(cid) /\ ~IsNull(cid) /\ ~ToInt(cid).ok
                    THEN {Reply(Abort(422), rows, id)}
                    ELSE {Reply(r, rows, id) :
                            r \in QuizAnswers(QuizSelection(rows, cid, previous_questions.l))}

----------------------------------------------------------------------------
(* The states the service starts in, and the requests it is sent *)

SeedTexts == << <<"A", "b">>, <<"b", "a">>, <<"a", "z">> >>
SeedAnswers == << <<"z">>, <<"b">> >>

SeedQuestion(i) ==
    [id |-> i, question |-> SeedTexts[(i % 3) + 1], answer |-> SeedAnswers[(i % 2) + 1],
     category |-> (i % 2) + 1, difficulty |-> (i % 3) + 1]

\* A table of n rows with the ids first..first+n-1
Seed(first, n) == [i \in 1..n |-> SeedQuestion(first + i - 1)]

SeedCategories == <<"Science", "Art">>

NoArgs == <<>>
PageArg(s) == [page |-> s]

PageTexts == {<<"1">>, <<"2">>, <<"3">>, <<"0">>, <<"-", "1">>, <<"x">>, <<"+", "2">>}
AllArgs == {NoArgs} \cup {PageArg(s) : s \in PageTexts}
SomeArgs == {NoArgs, PageArg(<<"2">>)}

FullBody ==
    [question |-> JStr(<<"a", "B">>), answer |-> JStr(<<"z">>),
     category |-> JStr(<<"2">>), difficulty |-> JInt(1)]
OtherBody ==
    [question |-> JStr(<<"_">>), answer |-> JStr(<<"a">>),
     category |-> JInt(1), difficulty |-> JInt(3)]
Fields == {"question", "answer", "category", "difficulty"}

Without(o, key) == [k \in (DOMAIN o) \ {key} |-> o[k]]

CreateBodies ==
    {NoBody, BadBody, JsonBody(<<>>), JsonBody(FullBody), JsonBody(OtherBody)}
    \cup {JsonBody(Without(FullBody, f)) : f \in Fields}
    \cup {JsonBody([FullBody EXCEPT ![f] = JNull]) : f \in Fields}
    \cup {JsonBody([FullBody EXCEPT !.difficulty = JStr(<<"x">>)])}

SearchTerms ==
    {JStr(<<>>), JStr(<<"a">>), JStr(<<"A", "B">>), JStr(<<"z">>), JStr(<<"q">>),
     JStr(<<"_">>), JStr(<<"%">>), JNull}
SearchBodies ==
    {NoBody, BadBody, JsonBody(<<>>)} \cup {JsonBody([searchTerm |-> t]) : t \in SearchTerms}

QuizIds == {JInt(0), JInt(1), JInt(2), JStr(<<"1">>), JStr(<<"0">>), JStr(<<"x">>), JNull}

RECURSIVE SetToSeq(_)
\* the members of a set of integers, ascending
SetToSeq(S) ==
    IF S = {} THEN <<>>
    ELSE LET m == CHOOSE x \in S : \A y \in S : x <= y
         IN <<m>> \o SetToSeq(S \ {m})

\* The quiz bodies over the given lists of previous questions
QuizBodies(ids, prevs) ==
    {NoBody, BadBody, JsonBody(<<>>),
     JsonBody([quiz_category |-> JObj([type |-> JStr(<<"a">>)])]),
     JsonBody([previous_questions |-> JList(<<>>)])}
    \cup {JsonBody([quiz_category |-> JObj([id |-> c])]) : c \in ids}
    \cup {JsonBody([quiz_category |-> JObj([id |-> c]), previous_questions |-> JList(p)]) :
            c \in ids, p \in prevs}

NoQuiz == 0 - 1

IdleClient ==
    /\ quizCat = NoQuiz
    /\ previous = <<>>
    /\ calls = 0
    /\ finished = FALSE

IdleWalk ==
    /\ page = 0
    /\ fetched = <<>>

NoRequest == [op |-> "none"]
NoResponse == [status |-> 0, body |-> <<>>]

----------------------------------------------------------------------------
(* Spec: the service over its store *)

SeedSizes == {0, 1, MaxSeed - 2, MaxSeed - 1, MaxSeed}
MaxId == MaxSeed + MaxCreates
DeleteIds == {1, 2, MaxSeed, MaxSeed + 1, MaxId + 1}

Init ==
    /\ \E n \in SeedSizes : questions = Seed(MaxSeed - n + 1, n)
    /\ nextId = MaxSeed + 1
    /\ categories \in {<<>>, SeedCategories}
    /\ req = NoRequest
    /\ resp = NoResponse
    /\ old = questions
    /\ IdleWalk
    /\ IdleClient

\* A request that reads the store
Serve(request, response) ==
    /\ req' = request
    /\ resp' = response
    /\ old' = questions
    /\ UNCHANGED <<storeVars, walkVars, clientVars>>

\* A request that may write the questions table
ServeWrite(request, reply) ==
    /\ req' = request
    /\ resp' = reply.resp
    /\ old' = questions
    /\ questions' = reply.questions
    /\ nextId' = reply.nextId
    /\ UNCHANGED <<categories, walkVars, clientVars>>

\* The service takes a request when it has answered the one before.
Waiting == req = NoRequest

GetCategories ==
    /\ Waiting
    /\ Serve([op |-> "get_categories"], get_categories(categories))

GetAllQuestions ==
    /\ Waiting
    /\ \E args \in AllArgs :
        Serve([op |-> "get_all_questions", args |-> args],
              get_all_questions(questions, categories, args))

DeleteQuestion ==
    /\ Waiting
    /\ \E question_id \in DeleteIds, args \in SomeArgs, fault \in BOOLEAN :
        ServeWrite([op |-> "delete_question", args |-> args, id |-> question_id,
                    fault |-> fault],
                   delete_question(questions, nextId, args, question_id, fault))

NewQuestion ==
    /\ Waiting
    /\ nextId <= MaxId
    /\ \E body \in CreateBodies, args \in SomeArgs, fault \in BOOLEAN :
        ServeWrite([op |-> "new_question", args |-> args, body |-> body,
                    fault |-> fault],
                   new_question(questions, nextId, args, body, fault))

SearchQuestions ==
    /\ Waiting
    /\ \E body \in SearchBodies, args \in SomeArgs :
        Serve([op |-> "search_questions", args |-> args, body |-> body],
              search_questions(questions, args, body))

GetCategoryList ==
    /\ Waiting
    /\ \E category_id \in {1, 2, 3}, args \in SomeArgs :
        Serve([op |-> "get_category_list", args |-> args, id |-> category_id],
              get_category_list(questions, args, category_id))

GetQuizQuestions ==
    /\ Waiting
    /\ \E body \in QuizBodies(QuizIds, {<<>>, <<MaxSeed>>, SetToSeq(Ids(questions))}) :
        \E reply \in get_quiz_questions(questions, nextId, body) :
            ServeWrite([op |-> "get_quiz_questions", body |-> body], reply)

\* The methods each route accepts (HEAD and OPTIONS are answered by the
\* framework); a path of no route is answered 404, a method the route does not
\* accept 405.
Routes ==
    [categories |-> {"GET"}, questions |-> {"GET", "POST"}, question |-> {"DELETE"},
     search |-> {"POST"}, category_questions |-> {"GET"}, quizzes |-> {"POST"}]

Methods == {"GET", "POST", "PUT", "PATCH", "DELETE"}

NotRouted(path, method) ==
    IF path \notin DOMAIN Routes THEN Abort(404) ELSE Abort(405)

\* A request no route handler is called for
OtherRequest ==
    /\ Waiting
    /\ \E path \in (DOMAIN Routes) \cup {"other"}, method \in Methods :
        /\ path \in DOMAIN Routes => method \notin Routes[path]
        /\ Serve([op |-> "not_routed", path |-> path, method |-> method],
                 NotRouted(path, method))

\* after_request: the response goes out, and the service waits for the next
\* request.
AfterRequest ==
    /\ req # NoRequest
    /\ req' = NoRequest
    /\ resp' = NoResponse
    /\ old' = questions
    /\ UNCHANGED <<storeVars, walkVars, clientVars>>

Next ==
    \/ AfterRequest
    \/ OtherRequest
    \/ GetCategories
    \/ GetAllQuestions
    \/ DeleteQuestion
    \/ NewQuestion
    \/ SearchQuestions
    \/ GetCategoryList
    \/ GetQuizQuestions

Spec == Init /\ [][Next]_vars

----------------------------------------------------------------------------
(* SpecPaginate: paginate_questions over tables of 0..MaxItems rows, one   *)
(* page at a time and as a walk through pages 1, 2, ...                    *)

PageNumbers == (1..(MaxPages + 1)) \cup {10, 11}

WalkArgs ==
    AllArgs \cup {PageArg(IntToStr(p)) : p \in PageNumbers} \cup {PageArg(<<>>), PageArg(<<"1", "x">>)}

InitPaginate ==
    /\ \E n \in 0..MaxItems : questions = Seed(1, n)
    /\ nextId = Len(questions) + 1
    /\ categories = SeedCategories
    /\ req = NoRequest
    /\ resp = NoResponse
    /\ old = questions
    /\ IdleWalk
    /\ IdleClient

\* One call of paginate_questions(request, selection)
Paginate ==
    \E args \in WalkArgs :
        /\ req' = [op |-> "paginate", args |-> args]
        /\ resp' = [status |-> 0, body |-> paginate_questions(args, questions)]
        /\ UNCHANGED <<storeVars, old, walkVars, clientVars>>

\* The next page of the walk: page + 1, written as a client writes it
FetchNextPage ==
    /\ page < MaxPages
    /\ page' = page + 1
    /\ fetched' = fetched \o paginate_questions(PageArg(IntToStr(page + 1)), questions)
    /\ UNCHANGED <<storeVars, req, resp, old, clientVars>>

NextPaginate ==
    \/ Paginate
    \/ FetchNextPage

SpecPaginate == InitPaginate /\ [][NextPaginate]_vars

----------------------------------------------------------------------------
(* SpecQuiz: POST /quizzes over every table of at most MaxQuizIds rows, as *)
(* single requests and as a client that plays a quiz to its end.           *)

QuizQuestion(i, c) ==
    [id |-> i, question |-> SeedTexts[(i % 3) + 1], answer |-> SeedAnswers[(i % 2) + 1],
     category |-> c, difficulty |-> 1]

QuizPrevs == {SetToSeq(S) : S \in SUBSET (1..(MaxQuizIds + 1))}

\* The body the quiz client sends
ClientBody == JsonBody([quiz_category |-> JObj([id |-> JInt(quizCat)]),
                        previous_questions |-> JList(previous)])

InitQuiz ==
    /\ \E S \in SUBSET (1..MaxQuizIds), c \in [1..MaxQuizIds -> 1..2] :
           questions = [i \in 1..Cardinality(S) |-> QuizQuestion(SetToSeq(S)[i], c[SetToSeq(S)[i]])]
    /\ nextId = MaxQuizIds + 1
    /\ categories = SeedCategories
    /\ req = NoRequest
    /\ resp = NoResponse
    /\ old = questions
    /\ IdleWalk
    /\ IdleClient

\* POST /quizzes with the body, of a client that plays no quiz
QuizRequestWith(body) ==
    /\ req = NoRequest
    /\ quizCat = NoQuiz
    /\ \E reply \in get_quiz_questions(questions, nextId, body) :
           /\ req' = [op |-> "get_quiz_questions", body |-> body]
           /\ resp' = reply.resp
           /\ questions' = reply.questions
           /\ nextId' = reply.nextId
    /\ UNCHANGED <<categories, old, walkVars, clientVars>>

\* One POST /quizzes with any body
QuizRequest ==
    \E body \in QuizBodies(QuizIds, QuizPrevs) : QuizRequestWith(body)

QuizAfterRequest ==
    /\ req # NoRequest
    /\ req' = NoRequest
    /\ resp' = NoResponse
    /\ UNCHANGED <<storeVars, old, walkVars, clientVars>>

\* The client picks the category of its quiz: 0 for all of them
ClientStart ==
    /\ req = NoRequest
    /\ quizCat = NoQuiz
    /\ quizCat' \in 0..3
    /\ UNCHANGED <<storeVars, req, resp, old, walkVars, previous, calls, finished>>

\* The client's next call: it sends what it has been served so far and adds
\* the id of the question it gets; question = null ends the quiz.
ClientPlay ==
    /\ ~finished
    /\ quizCat # NoQuiz
    /\ \E reply \in get_quiz_questions(questions, nextId, ClientBody) :
           /\ questions' = reply.questions
           /\ nextId' = reply.nextId
           /\ calls' = calls + 1
           /\ IF reply.resp.status = 200 /\ ~("id" \in DOMAIN reply.resp.body.question)
              THEN finished' = TRUE /\ previous' = previous
              ELSE /\ finished' = FALSE
                   /\ previous' = IF reply.resp.status = 200
                                  THEN Append(previous, reply.resp.body.question.id)
                                  ELSE previous
    /\ UNCHANGED <<categories, req, resp, old, walkVars, quizCat>>

NextQuiz ==
    \/ ClientStart
    \/ QuizRequest
    \/ QuizAfterRequest
    \/ ClientPlay

SpecQuiz == InitQuiz /\ [][NextQuiz]_vars

----------------------------------------------------------------------------
(* C1 *)

\* items[(p-1)*10 : p*10] clipped to the sequence, element by element
ExpectedPage(items, p) ==
    [i \in 1..Max(0, Min(QUESTIONS_PER_PAGE, Len(items) - (p - 1) * QUESTIONS_PER_PAGE)) |->
        items[(p - 1) * QUESTIONS_PER_PAGE + i]]

NonNumericTexts == {<<>>, <<"x">>, <<"1", "x">>}

\* C1: for every page number p >= 1 paginate_questions returns
\* items[(p-1)*10 : p*10] clipped to the sequence (at most 10 elements, empty
\* when (p-1)*10 >= len(items)); pages 1..k concatenated are items[0:10k];
\* an absent or non-numeric page parameter behaves as p = 1.
C1_PaginateIsSlice ==
    /\ \A p \in PageNumbers :
          (req.op = "paginate" /\ "page" \in DOMAIN req.args /\ req.args.page = IntToStr(p)) =>
              /\ resp.body = ExpectedPage(FormatAll(questions), p)
              /\ Len(resp.body) <= QUESTIONS_PER_PAGE
              /\ ((p - 1) * QUESTIONS_PER_PAGE >= Len(questions) => resp.body = <<>>)
    /\ (req.op = "paginate" /\ ("page" \notin DOMAIN req.args \/ req.args.page \in NonNumericTexts)) =>
          resp.body = ExpectedPage(FormatAll(questions), 1)
    /\ fetched = SubSeq(FormatAll(questions), 1, Min(QUESTIONS_PER_PAGE * page, Len(questions)))

C1_Witness ==
    /\ page >= 2
    /\ Len(fetched) > QUESTIONS_PER_PAGE
    /\ req.op = "paginate"
    /\ "page" \in DOMAIN req.args
    /\ req.args.page = <<"3">>
    /\ Len(resp.body) \in 1..(QUESTIONS_PER_PAGE - 1)

----------------------------------------------------------------------------
(* Shapes the claims speak of *)

\* The JSON error envelope of a status code
IsEnvelope(r, code) ==
    /\ r.status = code
    /\ DOMAIN r.body = {"success", "error", "message"}
    /\ r.body.success = FALSE
    /\ r.body.error = code
    /\ r.body.message = ErrorMessage(code)

IsSuccess(r) ==
    /\ r.status = 200
    /\ "success" \in DOMAIN r.body
    /\ r.body.success = TRUE

\* The body is a JSON object with all four fields present and non-null
AllFieldsPresent(body) ==
    /\ body.json
    /\ \A f \in Fields : f \in DOMAIN body.obj /\ body.obj[f].t # "null"

\* The body is a JSON object with a field missing or null
SomeFieldMissing(body) ==
    /\ body.json
    /\ \E f \in Fields : f \notin DOMAIN body.obj \/ body.obj[f].t = "null"

\* rows is before with the row of that id taken out and nothing else changed
RemovedExactly(before, rows, id) ==
    \E k \in 1..Len(before) :
        /\ before[k].id = id
        /\ rows = SubSeq(before, 1, k - 1) \o SubSeq(before, k + 1, Len(before))

----------------------------------------------------------------------------
(* C2 *)

\* C2 as stated: POST /questions with all four fields present and non-null
\* always succeeds, adds exactly one question, returns an id unused before and
\* total_questions = old size + 1.
C2_CreateAlwaysSucceeds ==
    (req.op = "new_question" /\ AllFieldsPresent(req.body)) =>
        /\ IsSuccess(resp)
        /\ Len(questions) = Len(old) + 1
        /\ SubSeq(questions, 1, Len(old)) = old
        /\ resp.body.created \notin Ids(old)
        /\ resp.body.created = questions[Len(questions)].id
        /\ resp.body.total_questions = Len(old) + 1

\* The store carries out the insert of the request
Persisted(r) ==
    /\ ~r.fault
    /\ ToInt(r.body.obj.category).ok
    /\ ToInt(r.body.obj.difficulty).ok

\* C2, amended: POST /questions with all four fields present and non-null
\* succeeds whenever the store carries out the insert: it adds exactly one
\* question, the created id was unused before, and total_questions is the
\* store size after the insert (old size + 1). When the store does not carry
\* out the insert (it rejects a value, or the write fails) the response is the
\* 422 envelope and the store is unchanged.
C2_CreateSucceedsWhenPersisted ==
    (req.op = "new_question" /\ AllFieldsPresent(req.body)) =>
        IF Persisted(req)
        THEN /\ IsSuccess(resp)
             /\ Len(questions) = Len(old) + 1
             /\ SubSeq(questions, 1, Len(old)) = old
             /\ resp.body.created \notin Ids(old)
             /\ resp.body.created = questions[Len(questions)].id
             /\ questions[Len(questions)].question = req.body.obj.question.s
             /\ questions[Len(questions)].answer = req.body.obj.answer.s
             /\ resp.body.total_questions = Len(old) + 1
             /\ resp.body.total_questions = Len(questions)
        ELSE /\ IsEnvelope(resp, 422)
             /\ questions = old

C2_Witness ==
    /\ req.op = "new_question"
    /\ AllFieldsPresent(req.body)
    /\ IsSuccess(resp)
    /\ Len(old) > QUESTIONS_PER_PAGE
    /\ resp.body.created > MaxSeed + 1
    /\ Len(questions) = Len(old) + 1

----------------------------------------------------------------------------
(* C3 *)

\* C3: POST /questions with one or more of the four fields missing or null
\* yields the 422 envelope (message 'Not able to be processed') and leaves the
\* stored questions unchanged.
C3_MissingFieldIs422 ==
    (req.op = "new_question" /\ SomeFieldMissing(req.body)) =>
        /\ IsEnvelope(resp, 422)
        /\ resp.body.message = "Not able to be processed"
        /\ questions = old

C3_Witness ==
    /\ req.op = "new_question"
    /\ req.body.json
    /\ DOMAIN req.body.obj = Fields \ {"answer"}
    /\ ~req.fault
    /\ resp.status = 422
    /\ Len(questions) > 0

----------------------------------------------------------------------------
(* C4 *)

\* C4 as stated: DELETE /questions/<id> of an existing id returns 200 with
\* deleted = id, removes exactly that question and reports the size after
\* removal; of an id that does not exist, 404 and the store unchanged.
C4_DeleteExistingSucceeds ==
    req.op = "delete_question" =>
        IF req.id \in Ids(old)
        THEN /\ IsSuccess(resp)
             /\ resp.body.deleted = req.id
             /\ RemovedExactly(old, questions, req.id)
             /\ resp.body.total_questions = Len(questions)
        ELSE /\ IsEnvelope(resp, 404)
             /\ questions = old

\* What the response of a delete says of the store
DeleteOutcome ==
    req.op = "delete_question" =>
        IF req.id \in Ids(old)
        THEN IF ~req.fault
             THEN /\ IsSuccess(resp)
                  /\ resp.body.deleted = req.id
                  /\ RemovedExactly(old, questions, req.id)
                  /\ req.id \notin Ids(questions)
                  /\ resp.body.total_questions = Len(questions)
                  /\ resp.body.total_questions = Len(old) - 1
             ELSE /\ IsEnvelope(resp, 422)
                  /\ questions = old
        ELSE /\ IsEnvelope(resp, 404)
             /\ questions = old

\* A listing shows rows of the store only
ListingShowsStore ==
    (req.op = "get_all_questions" /\ resp.status = 200) =>
        \A i \in 1..Len(resp.body.questions) : resp.body.questions[i].id \in Ids(questions)

\* An id enters the store only by a create that succeeds, and is then a new one
OnlyCreateAddsIds ==
    \A i \in Ids(questions') \ Ids(questions) :
        /\ req'.op = "new_question"
        /\ resp'.status = 200
        /\ i = resp'.body.created
        /\ i = nextId

\* C4, amended: DELETE /questions/<id> of an existing id, when the store
\* carries out the delete, returns 200 with deleted = id, removes exactly that
\* question, reports total_questions = the size after removal, and no later
\* listing contains that id (ids enter the store only by a create, which
\* assigns a new one); when the store fails to carry out the delete the
\* response is the 422 envelope and the store is unchanged; of an id that does
\* not exist, 404 and the store unchanged.
C4_DeleteRemovesWhenPersisted ==
    /\ [](DeleteOutcome /\ ListingShowsStore /\ (\A i \in Ids(questions) : i < nextId))
    /\ [][OnlyCreateAddsIds]_vars

C4_Witness ==
    /\ req.op = "delete_question"
    /\ req.id \in Ids(old)
    /\ resp.status = 200
    /\ Len(questions) >= QUESTIONS_PER_PAGE
    /\ req.id \notin Ids(questions)
    /\ nextId > MaxSeed + 1

----------------------------------------------------------------------------
(* C6 *)

\* term is a substring of text, letters compared in any case
Contains(text, term) ==
    \E k \in 0..(Len(text) - Len(term)) :
        \A j \in 1..Len(term) : Lower(text[k + j]) = Lower(term[j])

\* The search term of a body: empty when absent
TermOf(body) == IF "searchTerm" \in DOMAIN body.obj THEN body.obj.searchTerm ELSE JStr(<<>>)

\* The stored questions whose text contains the term
Containing(rows, term) == LET Has(q) == Contains(q.question, term) IN SelectSeq(rows, Has)

\* The page a request asks for, for the arguments the model sends
PageOf(args) == IF args = NoArgs THEN 1 ELSE 2

\* C6: POST /questions/search returns 200 with total_questions = the number
\* of questions whose text contains the search term as a case-insensitive
\* substring and questions = the requested page of those matches; an empty or
\* absent term matches every question, a term in no text gives an empty list
\* and total_questions 0.
C6_SearchIsSubstringMatch ==
    (req.op = "search_questions" /\ req.body.json /\ TermOf(req.body).t = "str") =>
        LET found == Containing(questions, TermOf(req.body).s)
        IN /\ IsSuccess(resp)
           /\ resp.body.total_questions = Len(found)
           /\ resp.body.questions = ExpectedPage(FormatAll(found), PageOf(req.args))
           /\ (TermOf(req.body).s = <<>> => resp.body.total_questions = Len(questions))

\* Characters ILIKE reads as part of the pattern language
LikeSpecial == {"%", "_", "\\"}

\* What holds of the code: the claim for terms with no wildcard character
SearchOfPlainTerms ==
    (/\ req.op = "search_questions"
     /\ req.body.json
     /\ TermOf(req.body).t = "str"
     /\ Range(TermOf(req.body).s) \cap LikeSpecial = {}) =>
        LET found == Containing(questions, TermOf(req.body).s)
        IN /\ IsSuccess(resp)
           /\ resp.body.total_questions = Len(found)
           /\ resp.body.questions = ExpectedPage(FormatAll(found), PageOf(req.args))

----------------------------------------------------------------------------
(* C7 *)

\* C7: GET /questions?page=p yields 404 exactly when the paginated page is
\* empty (no questions at all, or p beyond the last page); otherwise 200 with
\* the page, total_questions = the number of all stored questions, all
\* categories and current_category = null.
C7_ListQuestionsOr404 ==
    req.op = "get_all_questions" =>
        LET current == paginate_questions(req.args, questions)
        IN /\ resp.status \in {200, 404}
           /\ resp.status = 404 <=> Len(current) = 0
           /\ Len(questions) = 0 => IsEnvelope(resp, 404)
           /\ \A p \in 1..3 :
                 (req.args = PageArg(IntToStr(p)) /\ (p - 1) * QUESTIONS_PER_PAGE >= Len(questions))
                     => IsEnvelope(resp, 404)
           /\ resp.status = 404 => IsEnvelope(resp, 404)
           /\ resp.status = 200 =>
                 /\ IsSuccess(resp)
                 /\ resp.body.questions = current
                 /\ \A p \in 1..3 : req.args = PageArg(IntToStr(p)) =>
                        resp.body.questions = ExpectedPage(FormatAll(questions), p)
                 /\ resp.body.total_questions = Len(questions)
                 /\ resp.body.categories = categories
                 /\ resp.body.current_category = JNull
           /\ questions = old

C7_Witness ==
    /\ req.op = "get_all_questions"
    /\ req.args = PageArg(<<"3">>)
    /\ Len(questions) > QUESTIONS_PER_PAGE
    /\ resp.status = 404

----------------------------------------------------------------------------
(* C9 *)

RecognizedCodes == {400, 404, 405, 422, 500}

\* The request got as far as the write, and the store failed to carry it out
WriteFailed ==
    \/ req.op = "delete_question" /\ req.fault /\ req.id \in Ids(old)
    \/ req.op = "new_question" /\ req.fault /\ AllFieldsPresent(req.body)

\* C9: every request ends in a response of status 200 or 400, 404, 405, 422,
\* 500; every response that is not 200 is the JSON envelope with
\* success = false, error = the status code and a message; a failure of the
\* store in create or delete becomes 422.
C9_EveryErrorIsEnveloped ==
    req.op # "none" =>
        /\ resp.status \in {200} \cup RecognizedCodes
        /\ resp.status = 200 => IsSuccess(resp)
        /\ resp.status # 200 => IsEnvelope(resp, resp.status)
        /\ WriteFailed => IsEnvelope(resp, 422)

C9_Witness ==
    /\ req.op = "delete_question"
    /\ req.fault
    /\ req.id \in Ids(old)
    /\ resp.status = 422
    /\ resp.body.success = FALSE

----------------------------------------------------------------------------
(* C5 *)

\* The eligible set: the questions not in prev, of category c unless c = 0
Eligible(rows, c, prev) ==
    {Format(rows[i]) : i \in {j \in 1..Len(rows) :
                                /\ rows[j].id \notin prev
                                /\ (c = 0 \/ rows[j].category = c)}}

\* The request is a quiz request with an integer category id and a list of
\* previous questions
IsQuizOf(r) ==
    /\ r.op = "get_quiz_questions"
    /\ r.body.json
    /\ DOMAIN r.body.obj = {"quiz_category", "previous_questions"}
    /\ r.body.obj.quiz_category.t = "obj"
    /\ "id" \in DOMAIN r.body.obj.quiz_category.o
    /\ r.body.obj.quiz_category.o.id.t = "int"

QuizBody(c, prev) ==
    JsonBody([quiz_category |-> JObj([id |-> JInt(c)]), previous_questions |-> JList(prev)])

IsNullQuestion(r) == r.body.question = JNull

\* The answer to a quiz request: null exactly when nothing is eligible, a
\* member of the eligible set otherwise
QuizAnswerIsEligible ==
    IsQuizOf(req) =>
        LET c == req.body.obj.quiz_category.o.id.n
            prev == Range(req.body.obj.previous_questions.l)
            eligible == Eligible(questions, c, prev)
        IN /\ IsSuccess(resp)
           /\ DOMAIN resp.body = {"success", "question"}
           /\ IsNullQuestion(resp) <=> eligible = {}
           /\ eligible # {} =>
                 /\ resp.body.question \in eligible
                 /\ resp.body.question.id \notin prev
                 /\ c # 0 => resp.body.question.category = c
           /\ Ids(questions) \subseteq prev => IsNullQuestion(resp)

\* Every member of the eligible set can be the answer
EveryEligibleIsPossible ==
    (Waiting /\ quizCat = NoQuiz) =>
        \A c \in 0..2, prev \in QuizPrevs :
            \A e \in Eligible(questions, c, Range(prev)) :
                ENABLED (/\ QuizRequestWith(QuizBody(c, prev))
                         /\ resp'.body.question = e)

\* C5: POST /quizzes returns success with question = null exactly when the
\* eligible set is empty (all questions not in previous_questions for c = 0,
\* those of category c otherwise); when it is not empty the question returned
\* is a member of it, and every member is a possible result; with
\* previous_questions holding all ids the result is null.
C5_QuizPicksFromEligible ==
    /\ QuizAnswerIsEligible
    /\ EveryEligibleIsPossible

C5_Witness ==
    /\ IsQuizOf(req)
    /\ req.body.obj.quiz_category.o.id.n = 1
    /\ req.body.obj.previous_questions.l = <<2>>
    /\ Cardinality(Eligible(questions, 1, {2})) = 2
    /\ Cardinality(Eligible(questions, 0, {})) = 3
    /\ resp.status = 200
    /\ ~IsNullQuestion(resp)
    /\ resp.body.question.id = 3

----------------------------------------------------------------------------
(* C8 *)

\* The body is a JSON object that is malformed as a quiz request: no
\* quiz_category, a quiz_category with no id, or an id that is no number
MalformedQuiz(body) ==
    /\ body.json
    /\ \/ "quiz_category" \notin DOMAIN body.obj
       \/ /\ body.obj.quiz_category.t = "obj"
          /\ "id" \notin DOMAIN body.obj.quiz_category.o
       \/ /\ body.obj.quiz_category.t = "obj"
          /\ "id" \in DOMAIN body.obj.quiz_category.o
          /\ body.obj.quiz_category.o.id.t = "str"
          /\ \E i \in 1..Len(body.obj.quiz_category.o.id.s) :
                 ~IsDigit(body.obj.quiz_category.o.id.s[i])

\* The body has an integer category id and no previous_questions
OnlyCategory(body) ==
    /\ body.json
    /\ DOMAIN body.obj = {"quiz_category"}
    /\ body.obj.quiz_category.t = "obj"
    /\ "id" \in DOMAIN body.obj.quiz_category.o
    /\ body.obj.quiz_category.o.id.t = "int"

----------------------------------------------------------------------------
(* C10 *)

EligibleIds(rows, c) == {q.id : q \in Eligible(rows, c, {})}

\* C10: a client that starts from previous_questions = {} with a fixed
\* category and adds each question it is served never gets a question twice,
\* gets every eligible question once, and gets question = null on exactly the
\* (n+1)-th call, n the number of questions eligible at the start; the quiz
\* requests leave the stored questions and categories as they were.
C10_QuizPlayEnds ==
    quizCat # NoQuiz =>
        LET n == Cardinality(EligibleIds(old, quizCat))
        IN /\ \A i, j \in 1..Len(previous) : previous[i] = previous[j] => i = j
           /\ Range(previous) \subseteq EligibleIds(old, quizCat)
           /\ ~finished => calls = Len(previous) /\ calls <= n
           /\ finished => /\ Range(previous) = EligibleIds(old, quizCat)
                          /\ Len(previous) = n
                          /\ calls = n + 1
           /\ ~finished => ENABLED ClientPlay
           /\ questions = old
           /\ categories = SeedCategories
           /\ nextId = MaxQuizIds + 1

C10_Witness ==
    /\ quizCat = 1
    /\ finished
    /\ Len(previous) = 2
    /\ calls = 3
    /\ Len(questions) = MaxQuizIds

====
